---- MODULE Spec2Model ----
(***************************************************************************)
(* A model of backend/app.py of ArborTag-Tablet: the Flask handlers that   *)
(* turn an uploaded table of tree records into a heat-map raster, category *)
(* colours and summary statistics.                                         *)
(*                                                                         *)
(* Numbers.  Floats are modelled by exact rationals held as integers over  *)
(* a stated unit, so that rounding plays no part:                          *)
(*   - lat / long are integer multiples of 0.005 degree, and every axis    *)
(*     quantity (margin, xlim, ylim) is held in 1/20 of that unit, which   *)
(*     makes "15% of the span" the integer 3 * span and the 0.001 of the   *)
(*     source the integer 4;                                               *)
(*   - carbon_seq is an integer (NaN is outside the model);                *)
(*   - sqrt is rounded down to 1/KScale, so a heat-map cell is an integer  *)
(*     number of 1/(Radius*KScale);                                        *)
(*   - the Gaussian weights of scipy are replaced by the binomial weights  *)
(*     of the same support, integers whose sum is 2^(2*BlurRadius).        *)
(*   - a colour channel is an integer number of 1/ChannelScale and the     *)
(*     HSV arithmetic runs on exact fractions <<numerator, denominator>>.  *)
(***************************************************************************)
EXTENDS Integers, Sequences, FiniteSets, TLC

(***************************************************************************)
(* Bounds of the model.  GridSize, Radius and BlurRadius stand for the     *)
(* source's grid_size = 500, radius = 20 and the filter support            *)
(* int(4 * sigma + 0.5) = 32 of sigma = 8, scaled down together.           *)
(***************************************************************************)
MaxRows == 2
GridSize == 5
Radius == 2
BlurRadius == 2
KScale == 100

\* 0.001 degree, in 1/20 of the 0.005-degree coordinate unit
Epsilon == 4

\* the values a row's lat, long and carbon_seq are drawn from
Lats == {0, 1}
Longs == {0, 2}
Weights == {-1, 0, 2}

VARIABLES
    data,            \* the decoded table: a sequence of rows
    hpc,             \* analyze_heatmap_static: position in the handler
    lat_margin, long_margin, xlim, ylim,
    row,             \* index of the next row of the accumulation loop
    heatmap_data,    \* [ny][nx], in units of 1/(Radius*KScale)
    heatmap_smooth,  \* [ny][nx], numerators over denom
    denom,           \* the common denominator of heatmap_smooth
    masked,          \* [ny][nx], the mask of the masked array
    hresponse,       \* what the handler returned
    requests,        \* the requests in flight: endpoint, upload, position, response
    temp_dir,        \* the files of TEMP_DIR: name -> content
    colours_done,    \* the colour computations that have run on data
    combined_colors, \* analyze_distribution: the colours of the pie slices
    scientific_name_colormap,  \* analyze_diversity: create_colormap's result
    color_map,       \* analyze_diversity_static: species -> colour
    spc,             \* analyze_stats: position in the handler
    sresponse,       \* analyze_stats: what the handler returned
    apc,             \* adjust_color_brightness_saturation: position in the function
    rgba_color, brightness_factor, saturation_factor,   \* its arguments
    hsv_color,       \* its local array <<h, s, v>>
    adjusted_rgba    \* the tuple it returns

heatvars == <<hpc, lat_margin, long_margin, xlim, ylim, row, heatmap_data,
              heatmap_smooth, denom, masked, hresponse>>

servervars == <<requests, temp_dir>>
colourvars == <<colours_done, combined_colors, scientific_name_colormap, color_map>>
statsvars == <<spc, sresponse>>
adjustvars == <<apc, rgba_color, brightness_factor, saturation_factor, hsv_color, adjusted_rgba>>

vars == <<data, heatvars, servervars, colourvars, statsvars, adjustvars>>

Cells == 0 .. GridSize - 1

\* a row of the table read by pd.read_csv
Row(la, lo, w, n, h, wd) ==
    [lat |-> la, long |-> lo, carbon_seq |-> w, scientific_name |-> n,
     height |-> h, width |-> wd]

\* Series.max() / Series.min() of a column of a non-empty table
ColMax(d, col) == CHOOSE m \in {d[i][col] : i \in DOMAIN d} :
                      \A i \in DOMAIN d : d[i][col] <= m
ColMin(d, col) == CHOOSE m \in {d[i][col] : i \in DOMAIN d} :
                      \A i \in DOMAIN d : m <= d[i][col]

ZeroGrid == [ny \in Cells |-> [nx \in Cells |-> 0]]
NoMask == [ny \in Cells |-> [nx \in Cells |-> FALSE]]

\* "max(span * 0.15, 0.001)" in place of "span * 0.15 or 0.001"
MarginFloored(span) == IF 3 * span < Epsilon THEN Epsilon ELSE 3 * span

\* "span * 0.15" with no fallback
MarginNoFallback(span) == 3 * span

(***************************************************************************)
(* analyze_heatmap_static, lines 183-187: "span * 0.15 or 0.001".  Python's *)
(* "or" yields its right operand only when the left one is falsy, that is  *)
(* when the product is 0.                                                   *)
(***************************************************************************)
Margin(span) == IF 3 * span # 0 THEN 3 * span ELSE Epsilon

\* the margin taken off the lower limit only
LimitsLowerOnly(d, col, margin) == <<20 * ColMin(d, col) - margin, 20 * ColMax(d, col)>>

Limits(d, col, margin) ==
    <<20 * ColMin(d, col) - margin, 20 * ColMax(d, col) + margin>>

\* lines 212-213 and 217-218: int((v - lim[0]) / ((lim[1] - lim[0]) / grid_size));
\* int() truncates towards zero
TruncDiv(a, b) == IF a >= 0 THEN a \div b ELSE -((-a) \div b)
Project(v, lim) == TruncDiv((20 * v - lim[1]) * GridSize, lim[2] - lim[1])

\* np.sqrt(dx*dx + dy*dy), rounded down to 1/KScale
ISqrt(n) == CHOOSE r \in 0 .. 2 * Radius * KScale : r * r <= n /\ n < (r + 1) * (r + 1)
DistTab == [d2 \in 0 .. 2 * Radius * Radius |-> ISqrt(d2 * KScale * KScale)]

\* a flat kernel: "weight = row['carbon_seq']" in place of the falloff
FalloffFlat(dx, dy) == Radius * KScale

\* line 231: (1 - dist/radius), in units of 1/(Radius*KScale)
Falloff(dx, dy) == Radius * KScale - DistTab[dx * dx + dy * dy]

\* "heatmap_data[ny, nx] = weight" in place of "+="
AddBlobOverwrite(grid, xi, yi, w) ==
    [ny \in Cells |-> [nx \in Cells |->
        LET dx == nx - xi
            dy == ny - yi
        IN  IF /\ dx \in -Radius .. Radius
               /\ dy \in -Radius .. Radius
               /\ dx * dx + dy * dy <= Radius * Radius
            THEN Falloff(dx, dy) * w
            ELSE grid[ny][nx]]]

\* lines 223-232: the blob one row adds around its cell (xi, yi)
AddBlob(grid, xi, yi, w) ==
    [ny \in Cells |-> [nx \in Cells |->
        LET dx == nx - xi
            dy == ny - yi
        IN  IF /\ dx \in -Radius .. Radius
               /\ dy \in -Radius .. Radius
               /\ dx * dx + dy * dy <= Radius * Radius
            THEN grid[ny][nx] + Falloff(dx, dy) * w
            ELSE grid[ny][nx]]]

HeatTables ==
    UNION {[1 .. n -> {Row(la, lo, w, "Acer", 1, 1) : la \in Lats, lo \in Longs, w \in Weights}]
           : n \in 0 .. MaxRows}

HeatStart ==
    /\ hpc = "bounds"
    /\ lat_margin = 0 /\ long_margin = 0
    /\ xlim = <<0, 0>> /\ ylim = <<0, 0>>
    /\ row = 1
    /\ heatmap_data = ZeroGrid
    /\ heatmap_smooth = ZeroGrid
    /\ denom = 1
    /\ masked = NoMask
    /\ hresponse = "none"

\* lines 177-190 on an empty table: max() and min() are NaN, "NaN or 0.001" is
\* NaN, and ax.set_xlim raises on a NaN limit; line 306 turns it into a 500
HeatEmpty ==
    /\ hpc = "bounds"
    /\ Len(data) = 0
    /\ hpc' = "done"
    /\ hresponse' = "error"
    /\ UNCHANGED <<data, lat_margin, long_margin, xlim, ylim, row, heatmap_data,
                   heatmap_smooth, denom, masked>>
    /\ UNCHANGED <<servervars, colourvars, statsvars, adjustvars>>

\* lines 183-213
HeatBounds ==
    /\ hpc = "bounds"
    /\ Len(data) > 0
    /\ lat_margin' = Margin(ColMax(data, "lat") - ColMin(data, "lat"))
    /\ long_margin' = Margin(ColMax(data, "long") - ColMin(data, "long"))
    /\ xlim' = Limits(data, "long", long_margin')
    /\ ylim' = Limits(data, "lat", lat_margin')
    /\ heatmap_data' = ZeroGrid
    /\ row' = 1
    /\ hpc' = "accumulate"
    /\ UNCHANGED <<data, heatmap_smooth, denom, masked, hresponse>>
    /\ UNCHANGED <<servervars, colourvars, statsvars, adjustvars>>

\* lines 216-232: one iteration of "for _, row in data.iterrows()"
HeatAddRow ==
    /\ hpc = "accumulate"
    /\ row <= Len(data)
    /\ LET xi == Project(data[row].long, xlim)
           yi == Project(data[row].lat, ylim)
       IN  heatmap_data' =
               IF xi \in Cells /\ yi \in Cells
               THEN AddBlob(heatmap_data, xi, yi, data[row].carbon_seq)
               ELSE heatmap_data
    /\ row' = row + 1
    /\ UNCHANGED <<data, hpc, lat_margin, long_margin, xlim, ylim,
                   heatmap_smooth, denom, masked, hresponse>>
    /\ UNCHANGED <<servervars, colourvars, statsvars, adjustvars>>

(***************************************************************************)
(* scipy.ndimage.gaussian_filter(heatmap_data, sigma=sigma), line 236: one  *)
(* correlate1d pass along axis 0, then one along axis 1, each over the      *)
(* support -BlurRadius .. BlurRadius.  No mode is given, so the passes run  *)
(* in scipy's default mode 'reflect', (d c b a | a b c d | d c b a): the    *)
(* input is extended by reflecting about the edge of the last cell.         *)
(***************************************************************************)
RECURSIVE Binom(_, _)
Binom(n, k) == IF k = 0 \/ k = n THEN 1 ELSE Binom(n - 1, k - 1) + Binom(n - 1, k)

Support == -BlurRadius .. BlurRadius
GaussWeight == [k \in Support |-> Binom(2 * BlurRadius, BlurRadius + k)]
WeightSum == 2 ^ (2 * BlurRadius)

\* mode='nearest' (a a a a | a b c d | d d d d) in place of the default
Nearest(i) == IF i < 0 THEN 0 ELSE IF i >= GridSize THEN GridSize - 1 ELSE i

Reflect(i) == LET m == i % (2 * GridSize)
              IN  IF m < GridSize THEN m ELSE 2 * GridSize - 1 - m

RECURSIVE SumOver(_, _, _)
\* the sum of f[k] for k in lo .. hi
SumOver(f, lo, hi) == IF lo > hi THEN 0 ELSE f[lo] + SumOver(f, lo + 1, hi)

Correlate0(grid) ==
    [ny \in Cells |-> [nx \in Cells |->
        SumOver([k \in Support |-> GaussWeight[k] * grid[Reflect(ny + k)][nx]], -BlurRadius, BlurRadius)]]
Correlate1(grid) ==
    [ny \in Cells |-> [nx \in Cells |->
        SumOver([k \in Support |-> GaussWeight[k] * grid[ny][Reflect(nx + k)]], -BlurRadius, BlurRadius)]]

gaussian_filter(grid) == Correlate1(Correlate0(grid))

\* the unit of gaussian_filter's output: heatmap_data's unit times WeightSum^2
SmoothUnit == Radius * KScale * WeightSum * WeightSum

\* ndarray.max()
GridMax(grid) == CHOOSE m \in {grid[ny][nx] : ny \in Cells, nx \in Cells} :
                     \A ny \in Cells, nx \in Cells : grid[ny][nx] <= m

\* line 236, run when the loop of line 216 is exhausted
HeatSmooth ==
    /\ hpc = "accumulate"
    /\ row > Len(data)
    /\ heatmap_smooth' = gaussian_filter(heatmap_data)
    /\ denom' = SmoothUnit
    /\ hpc' = "normalize"
    /\ UNCHANGED <<data, lat_margin, long_margin, xlim, ylim, row, heatmap_data,
                   masked, hresponse>>
    /\ UNCHANGED <<servervars, colourvars, statsvars, adjustvars>>

\* lines 239-240: dividing every cell by the maximum makes the maximum the
\* common denominator; otherwise the array is left as it is
Normalize(grid, den) == IF GridMax(grid) > 0 THEN GridMax(grid) ELSE den

HeatNormalize ==
    /\ hpc = "normalize"
    /\ denom' = Normalize(heatmap_smooth, denom)
    /\ hpc' = "mask"
    /\ UNCHANGED <<data, lat_margin, long_margin, xlim, ylim, row, heatmap_data,
                   heatmap_smooth, masked, hresponse>>
    /\ UNCHANGED <<servervars, colourvars, statsvars, adjustvars>>

\* line 243: np.ma.masked_where(heatmap_smooth < 0.05, heatmap_smooth);
\* num/den < 1/20 with den > 0
MaskedWhere(grid, den) == [ny \in Cells |-> [nx \in Cells |-> 20 * grid[ny][nx] < den]]

HeatMask ==
    /\ hpc = "mask"
    /\ masked' = MaskedWhere(heatmap_smooth, denom)
    /\ hpc' = "respond"
    /\ UNCHANGED <<data, lat_margin, long_margin, xlim, ylim, row, heatmap_data,
                   heatmap_smooth, denom, hresponse>>
    /\ UNCHANGED <<servervars, colourvars, statsvars, adjustvars>>

\* lines 245-304: the figure is drawn, saved and sent
HeatRespond ==
    /\ hpc = "respond"
    /\ hresponse' = "png"
    /\ hpc' = "done"
    /\ UNCHANGED <<data, lat_margin, long_margin, xlim, ylim, row, heatmap_data,
                   heatmap_smooth, denom, masked>>
    /\ UNCHANGED <<servervars, colourvars, statsvars, adjustvars>>

HeatNext ==
    \/ HeatEmpty
    \/ HeatBounds
    \/ HeatAddRow
    \/ HeatSmooth
    \/ HeatNormalize
    \/ HeatMask
    \/ HeatRespond


(***************************************************************************)
(* The server.  app.run(debug=True, ...) at line 586 starts Flask's         *)
(* development server, which serves each request on a thread of its own, so *)
(* handlers interleave.  TEMP_DIR (line 25) is made once per process, and   *)
(* every handler writes its chart under a fixed name in it.                 *)
(***************************************************************************)
MaxRequests == 2
Requests == 1 .. MaxRequests
Uploads == {"a.csv", "b.csv"}

FileEndpoints == {"distribution", "heatmap", "heatmap_static", "diversity",
                  "diversity_static", "height", "width"}
JsonEndpoints == {"stats", "summary"}
Endpoints == FileEndpoints \cup JsonEndpoints

\* os.path.join(TEMP_DIR, <name>): lines 108, 158, 300, 366, 453, 481, 508
output_path(e) ==
    CASE e = "distribution" -> "Distribution.png"
      [] e = "heatmap" -> "carbon_seq_heatmap.html"
      [] e = "heatmap_static" -> "carbon_heatmap_static.png"
      [] e = "diversity" -> "diversity.html"
      [] e = "diversity_static" -> "diversity_static.png"
      [] e = "height" -> "height.png"
      [] e = "width" -> "width.png"

OutputNames == {output_path(e) : e \in FileEndpoints}

\* what a handler computes from the file uploaded with its request
Render(e, u) == [chart |-> e, of |-> u]

ServerStart ==
    /\ requests \in [Requests -> [endpoint : Endpoints, upload : Uploads,
                                  pc : {"received"}, response : {"none"}]]
    /\ temp_dir = [n \in OutputNames |-> "absent"]

\* no request in flight
ServerIdle ==
    /\ requests = <<>>
    /\ temp_dir = [n \in OutputNames |-> "absent"]

\* heatmap_map.save(output_path), map_with_points.save(output_path),
\* plt.savefig(output_path): lines 109, 159, 301, 367, 454, 482, 509
SaveOutput(r) ==
    /\ r \in DOMAIN requests
    /\ requests[r].pc = "received"
    /\ requests[r].endpoint \in FileEndpoints
    /\ temp_dir' = [temp_dir EXCEPT ![output_path(requests[r].endpoint)] =
                        Render(requests[r].endpoint, requests[r].upload)]
    /\ requests' = [requests EXCEPT ![r].pc = "saved"]
    /\ UNCHANGED <<data, heatvars, colourvars, statsvars, adjustvars>>

\* open(output_path).read() and send_file(output_path): lines 112, 162-165,
\* 304, 370-373, 457, 485, 512
SendOutput(r) ==
    /\ r \in DOMAIN requests
    /\ requests[r].pc = "saved"
    /\ requests' = [requests EXCEPT
                        ![r].pc = "responded",
                        ![r].response = temp_dir[output_path(requests[r].endpoint)]]
    /\ UNCHANGED temp_dir
    /\ UNCHANGED <<data, heatvars, colourvars, statsvars, adjustvars>>

\* jsonify(stats), jsonify(summary): lines 534, 563
SendJson(r) ==
    /\ r \in DOMAIN requests
    /\ requests[r].pc = "received"
    /\ requests[r].endpoint \in JsonEndpoints
    /\ requests' = [requests EXCEPT
                        ![r].pc = "responded",
                        ![r].response = Render(requests[r].endpoint, requests[r].upload)]
    /\ UNCHANGED temp_dir
    /\ UNCHANGED <<data, heatvars, colourvars, statsvars, adjustvars>>

ServerNext == \E r \in Requests : SaveOutput(r) \/ SendOutput(r) \/ SendJson(r)

(***************************************************************************)
(* Category colours.  TableauCount stands for the 10 colours of            *)
(* mcolors.TABLEAU_COLORS and Tab20Count for the 20 colours of each of     *)
(* tab20, tab20b and tab20c, scaled down.                                  *)
(***************************************************************************)
TableauCount == 2
Tab20Count == 1
MaxSpecies == 5

\* the species names that occur in the tables, in their sort order
SpeciesNames == <<"Acer", "Betula", "Cedrus", "Delonix", "Erythrina", "Ficus", "Gmelina">>
NameRank(v) == CHOOSE k \in DOMAIN SpeciesNames : SpeciesNames[k] = v
Species == {SpeciesNames[k] : k \in 1 .. MaxSpecies}

\* list(mcolors.TABLEAU_COLORS.values()), lines 316 and 390
TABLEAU_COLORS == [i \in 1 .. TableauCount |-> <<"tableau", i - 1>>]

\* plt.cm.get_cmap(name, 20).colors, lines 70-72
Colors(name) == [i \in 1 .. Tab20Count |-> <<name, i - 1>>]

\* lines 31-47 as analyze_distribution uses it, on palette colours that are
\* tags here; the colour arithmetic itself is modelled by the Adjust actions
adjust_color_brightness_saturation(color) == <<"adjusted", color>>

\* Series.unique(): the values in order of first appearance
RECURSIVE unique(_)
unique(col) ==
    IF col = <<>> THEN <<>>
    ELSE LET front == unique(SubSeq(col, 1, Len(col) - 1))
             last == col[Len(col)]
         IN  IF \E i \in DOMAIN front : front[i] = last THEN front
             ELSE Append(front, last)

Column(d, col) == [i \in DOMAIN d |-> d[i][col]]

\* sorted(values) of distinct names
RECURSIVE sorted(_)
sorted(S) == IF S = {} THEN <<>>
             ELSE LET m == CHOOSE m \in S : \A x \in S : NameRank(m) <= NameRank(x)
                  IN  <<m>> \o sorted(S \ {m})

Range(f) == {f[i] : i \in DOMAIN f}

\* "colors[i % color_count + 1]": an index off by one
create_colormap_shifted(unique_values) ==
    [value \in Range(unique_values) |->
        LET i == (CHOOSE k \in DOMAIN unique_values : unique_values[k] = value) - 1
        IN  TABLEAU_COLORS[((i + 1) % Len(TABLEAU_COLORS)) + 1]]

\* lines 314-319; enumerate() counts from 0, sequences here from 1
create_colormap(unique_values) ==
    [value \in Range(unique_values) |->
        LET i == (CHOOSE k \in DOMAIN unique_values : unique_values[k] = value) - 1
        IN  TABLEAU_COLORS[(i % Len(TABLEAU_COLORS)) + 1]]

RECURSIVE Times(_, _)
\* list * k
Times(list, k) == IF k <= 0 THEN <<>> ELSE list \o Times(list, k - 1)

\* list[:n]
Take(list, n) == SubSeq(list, 1, IF n < Len(list) THEN n ELSE Len(list))

\* lines 70-84
DistributionColors(num_categories) ==
    LET combined == Colors("tab20") \o Colors("tab20b") \o Colors("tab20c")
        adjusted == [i \in DOMAIN combined |-> adjust_color_brightness_saturation(combined[i])]
        repeated == IF num_categories > Len(adjusted)
                    THEN Times(adjusted, (num_categories \div Len(adjusted)) + 1)
                    ELSE adjusted
    IN  Take(repeated, num_categories)

\* tables of trees of distinct species, in every order, and the same tables
\* with a second tree of the first species at the end
DistinctTables ==
    {t \in UNION {[1 .. n -> {Row(0, 0, 1, sp, 1, 1) : sp \in Species}] : n \in 0 .. MaxSpecies} :
        \A i, j \in DOMAIN t : t[i] = t[j] => i = j}
ColourTables == DistinctTables \cup {Append(t, t[1]) : t \in DistinctTables \ {<<>>}}

ColoursStart ==
    /\ colours_done = {}
    /\ combined_colors = <<>>
    /\ scientific_name_colormap = <<>>
    /\ color_map = <<>>

\* analyze_distribution, lines 64-84
AnalyzeDistribution ==
    /\ "distribution" \notin colours_done
    /\ combined_colors' =
           DistributionColors(Len(unique(Column(data, "scientific_name"))))
    /\ colours_done' = colours_done \cup {"distribution"}
    /\ UNCHANGED <<data, scientific_name_colormap, color_map>>
    /\ UNCHANGED <<heatvars, servervars, statsvars, adjustvars>>

\* analyze_diversity, lines 350-354
AnalyzeDiversity ==
    /\ "diversity" \notin colours_done
    /\ scientific_name_colormap' = create_colormap(unique(Column(data, "scientific_name")))
    /\ colours_done' = colours_done \cup {"diversity"}
    /\ UNCHANGED <<data, combined_colors, color_map>>
    /\ UNCHANGED <<heatvars, servervars, statsvars, adjustvars>>

\* analyze_diversity_static, lines 383-392
AnalyzeDiversityStatic ==
    /\ "diversity_static" \notin colours_done
    /\ LET unique_species == sorted(Range(unique(Column(data, "scientific_name"))))
       IN  color_map' =
               [species \in Range(unique_species) |->
                   LET i == (CHOOSE k \in DOMAIN unique_species :
                                 unique_species[k] = species) - 1
                   IN  TABLEAU_COLORS[(i % Len(TABLEAU_COLORS)) + 1]]
    /\ colours_done' = colours_done \cup {"diversity_static"}
    /\ UNCHANGED <<data, combined_colors, scientific_name_colormap>>
    /\ UNCHANGED <<heatvars, servervars, statsvars, adjustvars>>

ColoursNext == AnalyzeDistribution \/ AnalyzeDiversity \/ AnalyzeDiversityStatic

(***************************************************************************)
(* analyze_stats, lines 517-537                                             *)
(***************************************************************************)
Heights == {1, 2}

\* Series.sum()
RECURSIVE Total(_)
Total(col) == IF col = <<>> THEN 0 ELSE col[Len(col)] + Total(SubSeq(col, 1, Len(col) - 1))

\* float(Series.mean()): the sum over the count, NaN for an empty column
Mean(col) == IF Len(col) = 0 THEN "NaN" ELSE <<Total(col), Len(col)>>

Count(col, v) == Cardinality({i \in DOMAIN col : col[i] = v})

\* Series.value_counts().to_dict()
value_counts(col) == [v \in Range(col) |-> Count(col, v)]

\* Series.mode(): the most frequent values, sorted
mode(col) == sorted({v \in Range(col) : \A u \in Range(col) : Count(col, u) <= Count(col, v)})

\* "mode()[0]" with no test of len(data): KeyError on an empty table
most_common_unguarded(d) ==
    IF Len(mode(Column(d, "scientific_name"))) > 0
    THEN mode(Column(d, "scientific_name"))[1] ELSE "KeyError"

\* "mode().iloc[-1]" in place of "mode()[0]"
most_common_last(d) ==
    IF Len(d) > 0
    THEN mode(Column(d, "scientific_name"))[Len(mode(Column(d, "scientific_name")))]
    ELSE "N/A"

\* line 530
most_common_species(d) ==
    IF Len(d) > 0 THEN mode(Column(d, "scientific_name"))[1] ELSE "N/A"

\* lines 524-532
Stats(d) ==
    [total_trees |-> Len(d),
     total_species |-> Cardinality(Range(Column(d, "scientific_name"))),
     avg_height |-> Mean(Column(d, "height")),
     avg_width |-> Mean(Column(d, "width")),
     total_carbon |-> Total(Column(d, "carbon_seq")),
     most_common_species |-> most_common_species(d),
     species_distribution |-> value_counts(Column(d, "scientific_name"))]

StatsSpecies == {"Acer", "Betula", "Cedrus"}
StatsTables ==
    UNION {[1 .. n -> {Row(0, 0, w, sp, h, 1) : w \in {0, 2}, sp \in StatsSpecies, h \in Heights}]
           : n \in 0 .. MaxRows}

StatsStart ==
    /\ spc = "received"
    /\ sresponse = "none"

\* lines 520-537: an exception raised while the dictionary is built is
\* answered by the error response of line 537
AnalyzeStats ==
    /\ spc = "received"
    /\ sresponse' = IF Stats(data).most_common_species = "KeyError"
                    THEN [status |-> 500, body |-> "error"]
                    ELSE [status |-> 200, body |-> Stats(data)]
    /\ spc' = "done"
    /\ UNCHANGED data
    /\ UNCHANGED <<heatvars, servervars, colourvars, adjustvars>>

(***************************************************************************)
(* adjust_color_brightness_saturation, lines 31-47.  A colour channel is    *)
(* an integer number of 1/ChannelScale, a factor an integer number of       *)
(* 1/FactorScale, and every value computed from them is an exact fraction   *)
(* <<numerator, denominator>> with a positive denominator.                  *)
(***************************************************************************)
ChannelScale == 2
FactorScale == 3

Channels == 0 .. ChannelScale
\* the factors: below 0, 0, up to 1 and above 1
Factors == -1 .. FactorScale + 1
RGBA == Channels \X Channels \X Channels \X Channels

Max3(c) == IF c[1] >= c[2] /\ c[1] >= c[3] THEN c[1]
           ELSE IF c[2] >= c[3] THEN c[2] ELSE c[3]
Min3(c) == IF c[1] <= c[2] /\ c[1] <= c[3] THEN c[1]
           ELSE IF c[2] <= c[3] THEN c[2] ELSE c[3]

(***************************************************************************)
(* matplotlib.colors.rgb_to_hsv on one colour: s = delta / max where the    *)
(* maximum is above 0, the hue sector by the channel that holds the         *)
(* maximum (the assignments run red, green, blue, so the last match wins),  *)
(* h = (sector / 6) % 1, v = max.                                           *)
(***************************************************************************)
rgb_to_hsv(rgb) ==
    LET arr_max == Max3(rgb)
        delta == arr_max - Min3(rgb)
        sat == IF arr_max > 0 THEN <<delta, arr_max>> ELSE <<0, 1>>
        sector == IF rgb[3] = arr_max THEN 4 * delta + (rgb[1] - rgb[2])
                  ELSE IF rgb[2] = arr_max THEN 2 * delta + (rgb[3] - rgb[1])
                  ELSE rgb[2] - rgb[3]
        hue == IF delta > 0 THEN <<sector % (6 * delta), 6 * delta>> ELSE <<0, 6>>
    IN  <<hue, sat, <<arr_max, ChannelScale>>>>

\* np.clip(x, a_min, a_max) left out: the product is stored as it is
clip_nothing(x, a_min, a_max) == x

\* np.clip(x, a_min, a_max) of a fraction, lines 40 and 43
clip(x, a_min, a_max) ==
    IF x[1] < a_min * x[2] THEN <<a_min * x[2], x[2]>>
    ELSE IF x[1] > a_max * x[2] THEN <<a_max * x[2], x[2]>>
    ELSE x

\* hsv_color[k] * factor
Scaled(x, factor) == <<x[1] * factor, x[2] * FactorScale>>

(***************************************************************************)
(* matplotlib.colors.hsv_to_rgb on one colour: i = int(h * 6), f the        *)
(* fraction left, p = v(1 - s), q = v(1 - s f), t = v(1 - s(1 - f)), the    *)
(* channels picked by i, and r = g = b = v where s is 0.                    *)
(***************************************************************************)
hsv_to_rgb(hsv) ==
    LET h == hsv[1]
        sat == hsv[2]
        v == hsv[3]
        i == (6 * h[1]) \div h[2]
        f == (6 * h[1]) % h[2]
        p == <<v[1] * (sat[2] - sat[1]), v[2] * sat[2]>>
        q == <<v[1] * (sat[2] * h[2] - sat[1] * f), v[2] * sat[2] * h[2]>>
        t == <<v[1] * (sat[2] * h[2] - sat[1] * (h[2] - f)), v[2] * sat[2] * h[2]>>
    IN  IF sat[1] = 0 THEN <<v, v, v>>
        ELSE CASE i % 6 = 0 -> <<v, t, p>>
               [] i = 1 -> <<q, v, p>>
               [] i = 2 -> <<p, v, t>>
               [] i = 3 -> <<p, q, v>>
               [] i = 4 -> <<t, p, v>>
               [] i = 5 -> <<v, p, q>>

\* no call of the function in progress
AdjustIdle ==
    /\ apc = "idle"
    /\ rgba_color = <<0, 0, 0, 0>>
    /\ brightness_factor = 0 /\ saturation_factor = 0
    /\ hsv_color = <<>>
    /\ adjusted_rgba = <<>>

\* line 31: the function is entered with its arguments
AdjustStart ==
    /\ apc = "convert"
    /\ rgba_color \in RGBA
    /\ brightness_factor \in Factors /\ saturation_factor \in Factors
    /\ hsv_color = <<>>
    /\ adjusted_rgba = <<>>

\* lines 34-37
AdjustConvert ==
    /\ apc = "convert"
    /\ hsv_color' = rgb_to_hsv(SubSeq(rgba_color, 1, 3))
    /\ apc' = "brightness"
    /\ UNCHANGED <<data, rgba_color, brightness_factor, saturation_factor, adjusted_rgba>>
    /\ UNCHANGED <<heatvars, servervars, colourvars, statsvars>>

\* line 40
AdjustBrightness ==
    /\ apc = "brightness"
    /\ hsv_color' = [hsv_color EXCEPT ![3] = clip(Scaled(hsv_color[3], brightness_factor), 0, 1)]
    /\ apc' = "saturation"
    /\ UNCHANGED <<data, rgba_color, brightness_factor, saturation_factor, adjusted_rgba>>
    /\ UNCHANGED <<heatvars, servervars, colourvars, statsvars>>

\* line 43
AdjustSaturation ==
    /\ apc = "saturation"
    /\ hsv_color' = [hsv_color EXCEPT ![2] = clip(Scaled(hsv_color[2], saturation_factor), 0, 1)]
    /\ apc' = "return"
    /\ UNCHANGED <<data, rgba_color, brightness_factor, saturation_factor, adjusted_rgba>>
    /\ UNCHANGED <<heatvars, servervars, colourvars, statsvars>>

\* lines 46-47
AdjustReturn ==
    /\ apc = "return"
    /\ LET adjusted_rgb == hsv_to_rgb(hsv_color)
       IN  adjusted_rgba' = <<adjusted_rgb[1], adjusted_rgb[2], adjusted_rgb[3], rgba_color[4]>>
    /\ apc' = "done"
    /\ UNCHANGED <<data, rgba_color, brightness_factor, saturation_factor, hsv_color>>
    /\ UNCHANGED <<heatvars, servervars, colourvars, statsvars>>

AdjustNext == AdjustConvert \/ AdjustBrightness \/ AdjustSaturation \/ AdjustReturn

(***************************************************************************)
(* The specifications: one per part of the program, each leaving the        *)
(* variables of the other parts as they start.                              *)
(***************************************************************************)
HeatInit ==
    /\ data \in HeatTables
    /\ HeatStart
    /\ ServerIdle
    /\ ColoursStart /\ StatsStart /\ AdjustIdle
SpecHeat == HeatInit /\ [][HeatNext]_vars

ServerInit == data = <<>> /\ HeatStart /\ ServerStart /\ ColoursStart /\ StatsStart /\ AdjustIdle
SpecServer == ServerInit /\ [][ServerNext]_vars

ColoursInit ==
    /\ data \in ColourTables
    /\ HeatStart
    /\ ServerIdle
    /\ ColoursStart /\ StatsStart /\ AdjustIdle
SpecColours == ColoursInit /\ [][ColoursNext]_vars

StatsInit ==
    /\ data \in StatsTables
    /\ HeatStart
    /\ ServerIdle
    /\ ColoursStart /\ StatsStart /\ AdjustIdle
StatsNext == AnalyzeStats
SpecStats == StatsInit /\ [][StatsNext]_vars

AdjustInit ==
    /\ data = <<>>
    /\ HeatStart
    /\ ServerIdle
    /\ ColoursStart /\ StatsStart /\ AdjustStart
SpecAdjust == AdjustInit /\ [][AdjustNext]_vars

Init == HeatInit \/ ServerInit \/ ColoursInit \/ StatsInit \/ AdjustInit
Next == HeatNext \/ ServerNext \/ ColoursNext \/ StatsNext \/ AdjustNext
Spec == Init /\ [][Next]_vars

(***************************************************************************)
(* Properties of analyze_heatmap_static                                     *)
(***************************************************************************)
Rasterizing == hpc # "bounds" /\ hresponse # "error"
LoopDone == Rasterizing /\ (hpc = "accumulate" => row > Len(data))
Smoothed == Rasterizing /\ hpc # "accumulate"
RowsAdded == IF hpc = "accumulate" THEN row - 1 ELSE Len(data)

CellX(p) == Project(p.long, xlim)
CellY(p) == Project(p.lat, ylim)
Dist2(p, nx, ny) == (nx - CellX(p)) * (nx - CellX(p)) + (ny - CellY(p)) * (ny - CellY(p))
InReach(p, nx, ny) ==
    CellX(p) \in Cells /\ CellY(p) \in Cells /\ Dist2(p, nx, ny) <= Radius * Radius

\* weight * max(0, 1 - distance/r), in units of 1/(Radius*KScale)
Kernel(p, nx, ny) ==
    LET k == Radius * KScale - DistTab[Dist2(p, nx, ny)]
    IN  p.carbon_seq * (IF k > 0 THEN k ELSE 0)

\* C2: once the first k rows have gone through the accumulation loop, every
\* cell holds the sum, over those rows whose projected cell is inside the grid
\* and within Radius of the cell, of weight * max(0, 1 - distance/Radius); a
\* cell farther than Radius from every projected point holds 0, and a blob
\* that overlaps the border loses only its offsets outside the grid.
C2_AccumulatedSum ==
    Rasterizing =>
        \A ny \in Cells, nx \in Cells :
            /\ heatmap_data[ny][nx] =
                   SumOver([i \in 1 .. RowsAdded |->
                               IF InReach(data[i], nx, ny)
                               THEN Kernel(data[i], nx, ny) ELSE 0],
                           1, RowsAdded)
            /\ (\A i \in 1 .. RowsAdded : ~InReach(data[i], nx, ny))
                   => heatmap_data[ny][nx] = 0

\* two rows of different weight whose blobs add up in one cell, and a cell
\* out of reach of both
C2_Witness ==
    /\ LoopDone /\ Len(data) = 2
    /\ data[1].carbon_seq # data[2].carbon_seq
    /\ \E ny \in Cells, nx \in Cells :
           /\ InReach(data[1], nx, ny) /\ Kernel(data[1], nx, ny) # 0
           /\ InReach(data[2], nx, ny) /\ Kernel(data[2], nx, ny) # 0
    /\ \E ny \in Cells, nx \in Cells :
           ~InReach(data[1], nx, ny) /\ ~InReach(data[2], nx, ny)

\* C3: a negative weight counts as zero, so after accumulation over any
\* point set no cell of the grid is negative.
C3_NoNegativeCell ==
    Rasterizing => \A ny \in Cells, nx \in Cells : heatmap_data[ny][nx] >= 0

\* C4: after normalize-and-mask, a smoothed grid with a maximum above 0 has
\* normalized maximum exactly 1 and masks exactly the cells whose normalized
\* value is below 0.05; one with maximum 0 is not divided, is all zero and is
\* masked in every cell.
C4_NormalizeAndMask ==
    hpc \in {"respond", "done"} /\ hresponse # "error" =>
        LET mx == GridMax(heatmap_smooth)
        IN  /\ mx > 0 =>
                /\ denom = mx
                /\ \A ny \in Cells, nx \in Cells :
                       masked[ny][nx] <=> 20 * heatmap_smooth[ny][nx] < mx
            /\ mx = 0 =>
                /\ denom = SmoothUnit
                /\ \A ny \in Cells, nx \in Cells :
                       heatmap_smooth[ny][nx] = 0 /\ masked[ny][nx]

AllSame == \A i \in DOMAIN data :
               /\ data[i].lat = data[1].lat
               /\ data[i].long = data[1].long
               /\ data[i].carbon_seq = data[1].carbon_seq
Centre == GridSize \div 2

\* C5: when every row has the same location and the same positive weight,
\* both axes get the epsilon span, the grid spacing is not zero, and once a
\* row has been accumulated the centre cell holds the one maximum of the grid.
C5_SingleHotSpot ==
    Rasterizing /\ AllSame /\ data[1].carbon_seq > 0 =>
        /\ lat_margin = Epsilon /\ long_margin = Epsilon
        /\ xlim[2] - xlim[1] = 2 * Epsilon /\ ylim[2] - ylim[1] = 2 * Epsilon
        /\ xlim[2] - xlim[1] # 0 /\ ylim[2] - ylim[1] # 0
        /\ RowsAdded >= 1 =>
               \A ny \in Cells, nx \in Cells :
                   <<nx, ny>> # <<Centre, Centre>>
                       => heatmap_data[ny][nx] < heatmap_data[Centre][Centre]

C5_Witness ==
    /\ LoopDone /\ Len(data) = 2 /\ AllSame /\ data[1].carbon_seq > 0
    /\ heatmap_data[Centre][Centre] > 0

Span(col) == ColMax(data, col) - ColMin(data, col)

\* C6 as stated: the margin of either axis is never below the epsilon.
C6_MarginAtLeastEpsilon ==
    Rasterizing => lat_margin >= Epsilon /\ long_margin >= Epsilon

\* C6, amended: the margin of an axis is 15% of its span when the span is not
\* zero and the epsilon when it is, so it is positive and the box is never
\* zero-size.
C6_MarginPositive ==
    Rasterizing =>
        /\ lat_margin = (IF Span("lat") = 0 THEN Epsilon ELSE 3 * Span("lat"))
        /\ long_margin = (IF Span("long") = 0 THEN Epsilon ELSE 3 * Span("long"))
        /\ lat_margin > 0 /\ long_margin > 0
        /\ ylim[2] - ylim[1] = 20 * Span("lat") + 2 * lat_margin
        /\ xlim[2] - xlim[1] = 20 * Span("long") + 2 * long_margin
        /\ ylim[2] > ylim[1] /\ xlim[2] > xlim[1]

\* a span that is not zero and whose 15% is below the epsilon
C6_Witness ==
    Rasterizing /\ Span("lat") # 0 /\ 3 * Span("lat") < Epsilon /\ Span("long") = 0

\* the value gaussian_filter gives cell (nx, ny) when an index beyond the
\* border is mapped by edge[_]
Filtered(grid, edge, nx, ny) ==
    SumOver([ky \in Support |->
                SumOver([kx \in Support |->
                            GaussWeight[ky] * GaussWeight[kx]
                                * grid[edge[ny + ky]][edge[nx + kx]]],
                        -BlurRadius, BlurRadius)],
            -BlurRadius, BlurRadius)

Beyond == -BlurRadius .. GridSize - 1 + BlurRadius
ClampToEdge == [i \in Beyond |-> IF i < 0 THEN 0 ELSE IF i >= GridSize THEN GridSize - 1 ELSE i]
Mirror == [i \in Beyond |-> IF i < 0 THEN -i - 1 ELSE IF i >= GridSize THEN 2 * GridSize - 1 - i ELSE i]

SameShape(g, h) == DOMAIN g = DOMAIN h /\ \A ny \in DOMAIN g : DOMAIN g[ny] = DOMAIN h[ny]

\* C7 as stated: the smoothed grid has the shape of the accumulated one and
\* takes the samples beyond the border from the nearest edge cell.
C7_ClampToEdge ==
    Smoothed =>
        /\ SameShape(heatmap_smooth, heatmap_data)
        /\ \A ny \in Cells, nx \in Cells :
               heatmap_smooth[ny][nx] = Filtered(heatmap_data, ClampToEdge, nx, ny)

\* C7, amended: the smoothed grid has the shape of the accumulated one and
\* takes the samples beyond the border by reflection about the edge: index -k
\* reads cell k - 1 and index N - 1 + k reads cell N - k.
C7_ReflectAtEdge ==
    Smoothed =>
        /\ SameShape(heatmap_smooth, heatmap_data)
        /\ \A ny \in Cells, nx \in Cells :
               heatmap_smooth[ny][nx] = Filtered(heatmap_data, Mirror, nx, ny)

\* a smoothed grid whose second column differs from its edge column
C7_Witness ==
    Smoothed /\ \E ny \in Cells : heatmap_data[ny][1] # heatmap_data[ny][0]

\* the accumulation loop of lines 216-232 is running or has just ended;
\* heatmap_data is not written after it
Accumulating == hpc = "accumulate"

\* the sum of all cells of a grid
GridTotal(grid) ==
    SumOver([ny \in Cells |-> SumOver(grid[ny], 0, GridSize - 1)], 0, GridSize - 1)

\* the offsets (dx, dy) a blob covers, their number, and the sum of
\* max(0, 1 - distance/Radius) over them, in units of 1/(Radius*KScale)
Reach == -Radius .. Radius
Covered == {o \in Reach \X Reach : o[1] * o[1] + o[2] * o[2] <= Radius * Radius}
CoveredCells == Cardinality(Covered)
KernelMass ==
    SumOver([dy \in Reach |->
                SumOver([dx \in Reach |->
                            IF <<dx, dy>> \in Covered
                            THEN Radius * KScale - DistTab[dx * dx + dy * dy] ELSE 0],
                        -Radius, Radius)],
            -Radius, Radius)

NonNegativeWeights == \A i \in DOMAIN data : data[i].carbon_seq >= 0
\* sum(weights) of the rows that have gone through the loop
WeightsAdded == SumOver([i \in 1 .. RowsAdded |-> data[i].carbon_seq], 1, RowsAdded)
\* the row's blob lies fully inside the grid
Unclipped(p) ==
    /\ CellX(p) - Radius >= 0 /\ CellX(p) + Radius <= GridSize - 1
    /\ CellY(p) - Radius >= 0 /\ CellY(p) + Radius <= GridSize - 1
NoClipping == \A i \in 1 .. RowsAdded : Unclipped(data[i])

\* C11 as stated: for non-negative weights the sum of all cells is at most
\* sum(weights) times the number of cells a blob covers, and it equals
\* sum(weights) when no blob is clipped by the border.
C11_SumConserved ==
    Accumulating /\ NonNegativeWeights =>
        /\ GridTotal(heatmap_data) <= WeightsAdded * Radius * KScale * CoveredCells
        /\ NoClipping => GridTotal(heatmap_data) = WeightsAdded * Radius * KScale

\* C11, amended: for non-negative weights the sum of all cells is at most
\* sum(weights) times the number of cells a blob covers, and at most
\* sum(weights) times the sum of max(0, 1 - distance/Radius) over the cells
\* of one blob, which it equals when no blob is clipped by the border.
C11_SumScaledByKernel ==
    Accumulating /\ NonNegativeWeights =>
        /\ GridTotal(heatmap_data) <= WeightsAdded * Radius * KScale * CoveredCells
        /\ GridTotal(heatmap_data) <= WeightsAdded * KernelMass
        /\ NoClipping => GridTotal(heatmap_data) = WeightsAdded * KernelMass

\* two rows of positive total weight accumulated, none clipped by the border
C11_Witness ==
    /\ Accumulating /\ LoopDone /\ Len(data) = 2 /\ NonNegativeWeights /\ NoClipping
    /\ data[1].carbon_seq # data[2].carbon_seq
    /\ GridTotal(heatmap_data) > 0

\* C13: the limits come from the points themselves with a positive margin
\* on each axis, so every row of a non-empty table projects to a cell
\* (xi, yi) with 0 <= xi < grid_size and 0 <= yi < grid_size; the test of
\* line 220 drops no row, and every cell holds the contributions of all the
\* rows gone through the loop that lie within Radius of it.
C13_EveryPointInGrid ==
    Rasterizing =>
        /\ lat_margin > 0 /\ long_margin > 0
        /\ \A i \in DOMAIN data :
               /\ 0 <= CellX(data[i]) /\ CellX(data[i]) < GridSize
               /\ 0 <= CellY(data[i]) /\ CellY(data[i]) < GridSize
        /\ Accumulating =>
               \A ny \in Cells, nx \in Cells :
                   heatmap_data[ny][nx] =
                       SumOver([i \in 1 .. RowsAdded |->
                                   IF Dist2(data[i], nx, ny) <= Radius * Radius
                                   THEN Kernel(data[i], nx, ny) ELSE 0],
                               1, RowsAdded)

\* both kinds of margin at once, with rows in the first and in the last cell
\* of the axis that has a span
C13_Witness ==
    /\ Accumulating /\ LoopDone /\ Len(data) = 2
    /\ Span("lat") # 0 /\ Span("long") = 0
    /\ \E i \in DOMAIN data : CellY(data[i]) = 0
    /\ \E i \in DOMAIN data : CellY(data[i]) = GridSize - 1
    /\ \A i \in DOMAIN data : heatmap_data[CellY(data[i])][CellX(data[i])] # 0

(***************************************************************************)
(* Properties of the server                                                 *)
(***************************************************************************)
\* C1: in every interleaving of concurrent requests, what a handler reads
\* back or sends from its output file is what the same request wrote: the
\* chart of its own endpoint computed from its own upload.
C1_OwnOutput ==
    \A r \in DOMAIN requests :
        requests[r].pc = "responded" =>
            requests[r].response = Render(requests[r].endpoint, requests[r].upload)

(***************************************************************************)
(* Properties of the category colours                                       *)
(***************************************************************************)
Names == {data[i].scientific_name : i \in DOMAIN data}
FirstRow(v) == CHOOSE i \in DOMAIN data :
                   /\ data[i].scientific_name = v
                   /\ \A j \in DOMAIN data : data[j].scientific_name = v => i <= j
\* the 0-based position of a name in order of first appearance, and in sort order
SeenIndex(v) == Cardinality({u \in Names : FirstRow(u) < FirstRow(v)})
SortIndex(v) == Cardinality({u \in Names : NameRank(u) < NameRank(v)})

\* entry j (0-based) of the adjusted concatenation of tab20, tab20b and tab20c
CombinedEntry(j) ==
    LET k == j % (3 * Tab20Count)
        name == IF k < Tab20Count THEN "tab20"
                ELSE IF k < 2 * Tab20Count THEN "tab20b" ELSE "tab20c"
    IN  <<"adjusted", <<name, k % Tab20Count>>>>

\* C8: the label at position i of the ordered list of distinct labels gets
\* the base colour i mod palette_size, whatever the number of labels:
\* create_colormap on the first-seen order, analyze_diversity_static on the
\* sorted order, and analyze_distribution's repeat-then-truncate gives
\* exactly num_categories colours, the i-th being combined[i mod palette_size];
\* each label has one colour.
C8_PaletteCycle ==
    /\ "diversity" \in colours_done =>
           /\ DOMAIN scientific_name_colormap = Names
           /\ \A v \in Names :
                  scientific_name_colormap[v] = <<"tableau", SeenIndex(v) % TableauCount>>
    /\ "diversity_static" \in colours_done =>
           /\ DOMAIN color_map = Names
           /\ \A v \in Names : color_map[v] = <<"tableau", SortIndex(v) % TableauCount>>
    /\ "distribution" \in colours_done =>
           /\ Len(combined_colors) = Cardinality(Names)
           /\ \A i \in 1 .. Cardinality(Names) : combined_colors[i] = CombinedEntry(i - 1)

\* more labels than either palette has colours, first seen out of sort order
C8_Witness ==
    /\ colours_done = {"distribution", "diversity", "diversity_static"}
    /\ Cardinality(Names) > 3 * Tab20Count
    /\ Cardinality(Names) > TableauCount
    /\ \E v \in Names : SeenIndex(v) # SortIndex(v)

(***************************************************************************)
(* Properties of analyze_stats                                              *)
(***************************************************************************)
Answered == spc = "done" /\ sresponse.status = 200
NameCount(v) == Cardinality({i \in DOMAIN data : data[i].scientific_name = v})
MostFrequent == {v \in Names : \A u \in Names : NameCount(u) <= NameCount(v)}

\* C9 as stated: the species reported as most common has the highest count,
\* and among several with the highest count it is the one seen first.
C9_FirstSeenWins ==
    spc = "done" /\ Len(data) > 0 =>
        /\ sresponse.status = 200
        /\ sresponse.body.most_common_species \in MostFrequent
        /\ \A v \in MostFrequent :
               FirstRow(sresponse.body.most_common_species) <= FirstRow(v)

\* C9, amended: the species reported as most common has the highest count,
\* and among several with the highest count it is the first in sort order.
C9_FirstSortedWins ==
    spc = "done" /\ Len(data) > 0 =>
        /\ sresponse.status = 200
        /\ sresponse.body.most_common_species \in MostFrequent
        /\ \A v \in MostFrequent :
               NameRank(sresponse.body.most_common_species) <= NameRank(v)

\* a tie whose first-seen species is not the first in sort order
C9_Witness ==
    /\ Answered /\ Len(data) > 0
    /\ \E v \in MostFrequent :
           /\ \A u \in MostFrequent : FirstRow(v) <= FirstRow(u)
           /\ \E u \in MostFrequent : NameRank(u) < NameRank(v)

\* C10 as stated: a table with no records is answered by an error.
C10_EmptyIsError ==
    spc = "done" /\ Len(data) = 0 => sresponse.status = 500

\* C10, amended: a table with no records is answered by a statistics result
\* whose counts are zero and whose most common species is "N/A".
C10_EmptyGivesNA ==
    spc = "done" /\ Len(data) = 0 =>
        /\ sresponse.status = 200
        /\ sresponse.body.total_trees = 0
        /\ sresponse.body.total_species = 0
        /\ sresponse.body.total_carbon = 0
        /\ sresponse.body.most_common_species = "N/A"
        /\ DOMAIN sresponse.body.species_distribution = {}

C10_Witness == Answered /\ Len(data) = 0

(***************************************************************************)
(* Properties of adjust_color_brightness_saturation                         *)
(***************************************************************************)
\* x clamped to [0, 1], as a fraction: 0 below 0, 1 above 1, x between
Clamped(num, den) ==
    IF num < 0 THEN <<0, 1>> ELSE IF num > den THEN <<1, 1>> ELSE <<num, den>>
SameFraction(x, y) == x[2] > 0 /\ y[2] > 0 /\ x[1] * y[2] = y[1] * x[2]
InUnit(x) == x[2] > 0 /\ 0 <= x[1] /\ x[1] <= x[2]

\* V and S of the input colour, times their factors, as fractions
RawV == <<Max3(rgba_color) * brightness_factor, ChannelScale * FactorScale>>
RawS == IF Max3(rgba_color) > 0
        THEN <<(Max3(rgba_color) - Min3(rgba_color)) * saturation_factor,
               Max3(rgba_color) * FactorScale>>
        ELSE <<0, 1>>

\* C12: for every RGBA input and every brightness and saturation factor the
\* fourth component of the result is the fourth component of the input, and
\* when the colour is converted back to RGB the V and S channels are the
\* products V * brightness_factor and S * saturation_factor clamped to [0, 1].
C12_AlphaKeptAndClamped ==
    /\ apc \in {"saturation", "return", "done"} =>
           InUnit(hsv_color[3]) /\ SameFraction(hsv_color[3], Clamped(RawV[1], RawV[2]))
    /\ apc \in {"return", "done"} =>
           InUnit(hsv_color[2]) /\ SameFraction(hsv_color[2], Clamped(RawS[1], RawS[2]))
    /\ apc = "done" =>
           /\ Len(adjusted_rgba) = 4
           /\ adjusted_rgba[4] = rgba_color[4]

\* a translucent colour whose brightness product is above 1 and whose
\* saturation product is below 0
C12_Witness ==
    /\ apc = "done"
    /\ rgba_color[4] \notin {0, ChannelScale}
    /\ RawV[1] > RawV[2]
    /\ RawS[1] < 0

====
